---- MODULE Spec2Model ----
(***************************************************************************)
(* Model of the test-case traceability tool (src/main.go, latest revision, *)
(* lines 1-312): parseFlags, parseTestFiles, parseRequirementsFile,        *)
(* createSpecificationMap, printSpecificationMap, storeSpecificationMap    *)
(* and main.                                                               *)
(*                                                                         *)
(* A Go string is a sequence of one-character strings.  The four regular   *)
(* expressions of the program are operators that compute the match Go's    *)
(* regexp package returns (leftmost match, greedy repetitions first).      *)
(* The standard error stream (the "Storing specification map" notice of    *)
(* line 47, the text of a panic) is not part of the state.                 *)
(***************************************************************************)
EXTENDS Integers, Sequences, FiniteSets, TLC

VARIABLES
  pc,                \* the step main is at; "exit" once the process has ended
  TestFiles,         \* flags.TestFiles: the positional arguments
  RequirementsFile,  \* *flags.RequirementsFile, "" by default
  Store,             \* *flags.Store
  fs,                \* the files the command line names: readable or not, bytes
  fi,                \* parseTestFiles: number of test files read
  testcases,         \* parseTestFiles: testcases
  requirements,      \* parseRequirementsFile: requirements
  ti,                \* createSpecificationMap: number of test cases processed
  specificationMap,  \* createSpecificationMap: specificationMap
  untagged,          \* createSpecificationMap: untagged
  console,           \* the lines written to the standard output
  markdownFile,      \* the file at *flags.SpecificationsMapOutput
  exitCode,          \* exit status of the process, -1 while it runs
  placed             \* history: per processed test case, the number of entries
                     \* its iteration added to the buckets and to untagged

vars == <<pc, TestFiles, RequirementsFile, Store, fs, fi, testcases,
          requirements, ti, specificationMap, untagged, console,
          markdownFile, exitCode, placed>>

----------------------------------------------------------------------------
(* Bounds *)

\* longest description of the tag-splitting runs
MaxDescLen == 6
\* most test files on a command line
MaxFiles == 2
\* most patrolTest calls in a test file: of a whole run, of an aggregation run
MaxRunCalls == 1
MaxCalls == 2
\* most rows of the requirement table: of a whole run, of a report run
MaxRunRows == 1
MaxReqs == 2
\* most test cases of a report run
MaxCases == 3
\* most lines of the requirement file of a table-parsing run
MaxReqLines == 2

----------------------------------------------------------------------------
(* Strings and character classes *)

Max(S) == CHOOSE x \in S : \A y \in S : y <= x
Min(S) == CHOOSE x \in S : \A y \in S : x <= y

\* Go regexp \s is [\t\n\f\r ]
IsSpace(c) == c \in {" ", "\t", "\n", "\r", "\f"}

\* Go regexp \w is [0-9A-Za-z_]
WordChars ==
  {"a","b","c","d","e","f","g","h","i","j","k","l","m","n","o","p","q","r",
   "s","t","u","v","w","x","y","z","A","B","C","D","E","F","G","H","I","J",
   "K","L","M","N","O","P","Q","R","S","T","U","V","W","X","Y","Z","0","1",
   "2","3","4","5","6","7","8","9","_"}

IsWord(c) == c \in WordChars

\* s[from..] (empty when from > Len(s))
Tail_From(s, from) == SubSeq(s, from, Len(s))

\* strings.TrimSpace: both ends, ASCII white space of the model's alphabet
TrimSpace(s) ==
  LET keep == {i \in 1..Len(s) : ~IsSpace(s[i])}
  IN  IF keep = {} THEN <<>> ELSE SubSeq(s, Min(keep), Max(keep))

\* all strings over alphabet A of length n
StringsOfLen(A, n) == [1..n -> A]

\* all strings over alphabet A of length lo..hi
Strings(A, lo, hi) == UNION {StringsOfLen(A, n) : n \in lo..hi}

----------------------------------------------------------------------------
\* The tag pattern `(\S+):` of createSpecificationMap

\* last index of the run of non-white-space characters that contains i
RunEnd(s, i) ==
  LET stops == {j \in i..Len(s) : IsSpace(s[j])}
  IN  IF stops = {} THEN Len(s) ELSE Min(stops) - 1

\* a variant of tagRegexMatchAt with a lazy \S+?: the match ends at the first
\* colon after i
tagRegexMatchAt_firstColon(s, i) ==
  IF IsSpace(s[i]) THEN 0
  ELSE LET J == {j \in (i+1)..RunEnd(s, i) : s[j] = ":"}
       IN  IF J = {} THEN 0 ELSE Min(J)

\* (\S+): tried at start i: index of the colon that ends the match, 0 if the
\* pattern does not match there.  \S+ is greedy and a colon is itself \S, so
\* the match ends at the last colon of the run that lies after i.
tagRegexMatchAt(s, i) ==
  IF IsSpace(s[i]) THEN 0
  ELSE LET J == {j \in (i+1)..RunEnd(s, i) : s[j] = ":"}
       IN  IF J = {} THEN 0 ELSE Max(J)

\* r.FindAllStringSubmatch(description, -1), reduced to the captures t[1]:
\* successive non-overlapping leftmost matches from position pos on.
RECURSIVE tagRegex_FindAll(_, _)
tagRegex_FindAll(s, pos) ==
  LET starts == {i \in pos..Len(s) : tagRegexMatchAt(s, i) # 0}
  IN  IF starts = {} THEN <<>>
      ELSE LET i == Min(starts)
               j == tagRegexMatchAt(s, i)
           IN  <<SubSeq(s, i, j - 1)>> \o tagRegex_FindAll(s, j + 1)

----------------------------------------------------------------------------
\* The body pattern `[^:]\s*([^:]*)$` of createSpecificationMap

\* a variant of specRegexMatchAt without the \s*: the capture starts right
\* after the first character
specRegexMatchAt_noSkip(s, i) ==
  IF s[i] = ":" THEN 0
  ELSE IF \A m \in (i+1)..Len(s) : s[m] # ":" THEN i + 1 ELSE 0

\* the pattern tried at start i: first index of the capture (Len(s)+1 for an
\* empty capture at the end), 0 if the pattern does not match there.
specRegexMatchAt(s, i) ==
  IF s[i] = ":" THEN 0
  ELSE LET cands == {k \in (i+1)..(Len(s)+1) :
                       /\ \A m \in (i+1)..(k-1) : IsSpace(s[m])
                       /\ \A m \in k..Len(s) : s[m] # ":"}
       IN  IF cands = {} THEN 0 ELSE Max(cands)

\* s.FindStringSubmatch(description): <<>> is Go's nil (no match), otherwise
\* <<match, capture>> (Go's indices 0 and 1 are 1 and 2 here).
specRegex_FindStringSubmatch(s) ==
  LET starts == {i \in 1..Len(s) : specRegexMatchAt(s, i) # 0}
  IN  IF starts = {} THEN <<>>
      ELSE LET i == Min(starts)
           IN  <<Tail_From(s, i), Tail_From(s, specRegexMatchAt(s, i))>>

----------------------------------------------------------------------------
\* The call pattern `patrolTest\(\s*['"](.+)['"]` of parseTestFiles

patrolTestToken == <<"p","a","t","r","o","l","T","e","s","t","(">>

IsQuote(c) == c \in {"'", "\""}

\* first index >= i whose character is not white space (Len(s)+1 if none)
SkipSpace(s, i) ==
  LET rest == {j \in i..Len(s) : ~IsSpace(s[j])}
  IN  IF rest = {} THEN Len(s) + 1 ELSE Min(rest)

\* last index of the line that contains i: `.` does not match a newline
LineEnd(s, i) ==
  LET nl == {j \in i..Len(s) : s[j] = "\n"}
  IN  IF nl = {} THEN Len(s) ELSE Min(nl) - 1

\* the pattern tried at start i: <<first index of the capture, index of the
\* closing quote>>, or <<>> if it does not match there.  `.+` is greedy: the
\* capture runs to the last quote of the line.
patrolTestRegexMatchAt(b, i) ==
  IF i + Len(patrolTestToken) - 1 > Len(b) THEN <<>>
  ELSE IF SubSeq(b, i, i + Len(patrolTestToken) - 1) # patrolTestToken THEN <<>>
  ELSE LET q == SkipSpace(b, i + Len(patrolTestToken))
       IN  IF q > Len(b) THEN <<>>
           ELSE IF ~IsQuote(b[q]) THEN <<>>
           ELSE LET closers == {k \in (q+2)..LineEnd(b, q+1) : IsQuote(b[k])}
                IN  IF closers = {} THEN <<>> ELSE <<q + 1, Max(closers)>>

\* r.FindAllStringSubmatch(string(b), -1), reduced to the captures testcase[1]
RECURSIVE patrolTestRegex_FindAll(_, _)
patrolTestRegex_FindAll(b, pos) ==
  LET starts == {i \in pos..Len(b) : patrolTestRegexMatchAt(b, i) # <<>>}
  IN  IF starts = {} THEN <<>>
      ELSE LET m == patrolTestRegexMatchAt(b, Min(starts))
           IN  <<SubSeq(b, m[1], m[2] - 1)>> \o patrolTestRegex_FindAll(b, m[2] + 1)

----------------------------------------------------------------------------
\* The row pattern `\|\s*(\w*)\s*\|\s*([\s\w]+)\s*\|` of parseRequirementsFile

\* first index >= i whose character is not a word character
SkipWord(s, i) ==
  LET rest == {j \in i..Len(s) : ~IsWord(s[j])}
  IN  IF rest = {} THEN Len(s) + 1 ELSE Min(rest)

\* first index >= i whose character is neither white space nor a word character
SkipSpaceOrWord(s, i) ==
  LET rest == {j \in i..Len(s) : ~(IsSpace(s[j]) \/ IsWord(s[j]))}
  IN  IF rest = {} THEN Len(s) + 1 ELSE Min(rest)

\* the pattern tried at start i: <<match[1], match[2]>>, or <<>> if it does not
\* match there.  The second capture is greedy: the leading \s* takes the white
\* space before it (all but one character when the column is blank), and the
\* capture itself takes every following [\s\w], trailing white space included.
requirementsRegexMatchAt(s, i) ==
  IF s[i] # "|" THEN <<>>
  ELSE LET a == SkipSpace(s, i + 1)
           b == SkipWord(s, a)
           c == SkipSpace(s, b)
       IN  IF c > Len(s) THEN <<>>
           ELSE IF s[c] # "|" THEN <<>>
           ELSE LET d == SkipSpace(s, c + 1)
                    e == SkipSpaceOrWord(s, c + 1)
                IN  IF e = c + 1 \/ e > Len(s) THEN <<>>
                    ELSE IF s[e] # "|" THEN <<>>
                    ELSE <<SubSeq(s, a, b - 1),
                           IF d < e THEN SubSeq(s, d, e - 1)
                                    ELSE SubSeq(s, e - 1, e - 1)>>

\* r.FindStringSubmatch(line): <<>> is no match, otherwise the two captures
requirementsRegex_FindStringSubmatch(s) ==
  LET starts == {i \in 1..Len(s) : requirementsRegexMatchAt(s, i) # <<>>}
  IN  IF starts = {} THEN <<>> ELSE requirementsRegexMatchAt(s, Min(starts))

\* bufio.ScanLines drops one trailing carriage return of a line
dropCR(l) ==
  IF l # <<>> /\ l[Len(l)] = "\r" THEN SubSeq(l, 1, Len(l) - 1) ELSE l

\* bufio.Scanner with the default split function: the lines of a file
RECURSIVE ScanLines(_)
ScanLines(b) ==
  IF b = <<>> THEN <<>>
  ELSE LET nl == {i \in 1..Len(b) : b[i] = "\n"}
       IN  IF nl = {} THEN <<dropCR(b)>>
           ELSE <<dropCR(SubSeq(b, 1, Min(nl) - 1))>>
                  \o ScanLines(Tail_From(b, Min(nl) + 1))

----------------------------------------------------------------------------
(* Data model *)

TestCase(d, f) == [Description |-> d, File |-> f]

Specification(d, f) == [Description |-> d, File |-> f]

Requirement(t, d) == [Tag |-> t, Description |-> d]

\* a path of the file system: unreadable, or readable with its bytes
Unreadable == [ok |-> FALSE, data |-> <<>>]
Readable(b) == [ok |-> TRUE, data |-> b]

\* the markdown output path: absent, or a file with its lines
Absent == [exists |-> FALSE, lines |-> <<>>]
Written(ls) == [exists |-> TRUE, lines |-> ls]

\* one line of output: the format that produced it and the values it was
\* given (a tag, a description, a file name; empty when the format has none)
Line(kind, tag, text, file) ==
  [kind |-> kind, tag |-> tag, text |-> text, file |-> file]

\* a Go map with no key
EmptyMap == [t \in {} |-> <<>>]

----------------------------------------------------------------------------
(* parseRequirementsFile, lines 70-99 *)

headerTag == {<<"T","a","g">>, <<"t","a","g">>}

headerDescription ==
  {<<"D","e","s","c","r","i","p","t","i","o","n">>,
   <<"d","e","s","c","r","i","p","t","i","o","n">>}

\* the body of the scanner loop: the Requirements one line appends
parseRequirementsLine(line) ==
  LET match == requirementsRegex_FindStringSubmatch(line)
  IN  IF match = <<>> THEN <<>>
      ELSE IF match[1] \in headerTag THEN <<>>
      ELSE IF match[2] \in headerDescription THEN <<>>
      ELSE <<Requirement(TrimSpace(match[1]), TrimSpace(match[2]))>>

RECURSIVE parseRequirementsLines(_)
parseRequirementsLines(lines) ==
  IF lines = <<>> THEN <<>>
  ELSE parseRequirementsLine(Head(lines)) \o parseRequirementsLines(Tail(lines))

----------------------------------------------------------------------------
(* parseTestFiles, lines 241-267 *)

\* the inner loop: the TestCases one file appends
RECURSIVE testCasesOf(_, _)
testCasesOf(descriptions, testfile) ==
  IF descriptions = <<>> THEN <<>>
  ELSE <<TestCase(Head(descriptions), testfile)>>
         \o testCasesOf(Tail(descriptions), testfile)

parseTestFile(b, testfile) == testCasesOf(patrolTestRegex_FindAll(b, 1), testfile)

----------------------------------------------------------------------------
(* createSpecificationMap, lines 106-137 *)

\* a variant of mapAppend that puts the new entry in front of the bucket
mapAppend_prepend(m, tag, spec) ==
  IF tag \in DOMAIN m THEN [m EXCEPT ![tag] = <<spec>> \o @]
  ELSE [t \in DOMAIN m \cup {tag} |-> IF t = tag THEN <<spec>> ELSE m[t]]

\* specificationMap[tag] = append(specificationMap[tag], spec)
mapAppend(m, tag, spec) ==
  IF tag \in DOMAIN m THEN [m EXCEPT ![tag] = Append(@, spec)]
  ELSE [t \in DOMAIN m \cup {tag} |-> IF t = tag THEN <<spec>> ELSE m[t]]

\* the loop over the tag matches, lines 125-130
RECURSIVE appendToTags(_, _, _)
appendToTags(m, tags, spec) ==
  IF tags = <<>> THEN m
  ELSE appendToTags(mapAppend(m, Head(tags), spec), Tail(tags), spec)

\* a variant of appendUntagged that forgets the test of constainsTag
appendUntagged_always(u, tags, spec) == Append(u, spec)

\* if !constainsTag { untagged = append(untagged, spec) }, lines 132-134
appendUntagged(u, tags, spec) ==
  IF Len(tags) = 0 THEN Append(u, spec) ELSE u

\* number of entries over all buckets
RECURSIVE bucketEntries(_)
bucketEntries(m) ==
  IF DOMAIN m = {} THEN 0
  ELSE LET t == CHOOSE x \in DOMAIN m : TRUE
       IN  Len(m[t]) + bucketEntries([x \in DOMAIN m \ {t} |-> m[x]])

----------------------------------------------------------------------------
(* printSpecificationMap and storeSpecificationMap, lines 139-234 *)

\* slices.Contains
Contains(xs, x) == \E n \in 1..Len(xs) : xs[n] = x

\* tags = append(tags, requirement.Tag), for every requirement
requirementTags(reqs) == [n \in 1..Len(reqs) |-> reqs[n].Tag]

\* the orders in which a range loop may visit the keys of a Go map: the
\* language leaves the order unspecified, and it differs from loop to loop
rangeOrders(m) ==
  LET n == Cardinality(DOMAIN m)
  IN  {o \in [1..n -> DOMAIN m] : \A x, y \in 1..n : x # y => o[x] # o[y]}

specLines(specs) ==
  [n \in 1..Len(specs) |-> Line("spec", <<>>, specs[n].Description, specs[n].File)]

\* printSpecs, lines 224-234
printSpecs(title, specs) ==
  <<title>>
    \o (IF Len(specs) = 0 THEN <<Line("nospecs", <<>>, <<>>, "")>>
                          ELSE specLines(specs))
    \o <<Line("blank", <<>>, <<>>, "")>>

\* lines 199-206
RECURSIVE printRequirements(_, _)
printRequirements(reqs, m) ==
  IF reqs = <<>> THEN <<>>
  ELSE LET requirement == Head(reqs)
           specs == IF requirement.Tag \in DOMAIN m THEN m[requirement.Tag]
                    ELSE <<>>
       IN  printSpecs(Line("requirement", requirement.Tag,
                           requirement.Description, ""), specs)
             \o printRequirements(Tail(reqs), m)

\* lines 209-214, the keys visited in the given order
RECURSIVE printOrphans(_, _, _)
printOrphans(order, m, tags) ==
  IF order = <<>> THEN <<>>
  ELSE (IF Contains(tags, Head(order)) THEN <<>>
        ELSE printSpecs(Line("orphan", Head(order), <<>>, ""), m[Head(order)]))
         \o printOrphans(Tail(order), m, tags)

\* lines 217-219
printUntagged(u) ==
  IF Len(u) # 0 THEN printSpecs(Line("untagged", <<>>, <<>>, ""), u) ELSE <<>>

\* a variant of printedReport that visits the map before the requirements
printedReport_mapFirst(m, u, reqs, order) ==
  printOrphans(order, m, requirementTags(reqs))
    \o printRequirements(reqs, m)
    \o printUntagged(u)

\* what printSpecificationMap writes to the standard output
printedReport(m, u, reqs, order) ==
  printRequirements(reqs, m)
    \o printOrphans(order, m, requirementTags(reqs))
    \o printUntagged(u)

\* lines 146-156
RECURSIVE markdownRequirements(_, _)
markdownRequirements(reqs, m) ==
  IF reqs = <<>> THEN <<>>
  ELSE LET requirement == Head(reqs)
       IN  <<Line("requirement", requirement.Tag, requirement.Description, "")>>
             \o (IF requirement.Tag \in DOMAIN m
                 THEN specLines(m[requirement.Tag])
                 ELSE <<Line("nospecs", <<>>, <<>>, "")>>)
             \o markdownRequirements(Tail(reqs), m)

\* lines 159-167
RECURSIVE markdownOrphans(_, _, _)
markdownOrphans(order, m, tags) ==
  IF order = <<>> THEN <<>>
  ELSE (IF Contains(tags, Head(order)) THEN <<>>
        ELSE <<Line("orphan", Head(order), <<>>, "")>> \o specLines(m[Head(order)]))
         \o markdownOrphans(Tail(order), m, tags)

\* lines 170-175
markdownUntagged(u) ==
  IF Len(u) # 0 THEN <<Line("untagged", <<>>, <<>>, "")>> \o specLines(u)
  ELSE <<>>

\* the markdown text storeSpecificationMap builds, lines 140-175
markdownReport(m, u, reqs, order) ==
  <<Line("heading", <<>>, <<>>, ""), Line("blank", <<>>, <<>>, "")>>
    \o markdownRequirements(reqs, m)
    \o markdownOrphans(order, m, requirementTags(reqs))
    \o markdownUntagged(u)

----------------------------------------------------------------------------
(* main, lines 17-54: one action per step *)

\* parseFlags/validateFlags fail: usage, a blank line, the error, exit 1
parseFlags_error ==
  /\ pc = "parseFlags"
  /\ Len(TestFiles) = 0
  /\ console' = console \o <<Line("usage", <<>>, <<>>, ""),
                             Line("blank", <<>>, <<>>, ""),
                             Line("error", <<>>, <<>>, "")>>
  /\ pc' = "exit"
  /\ exitCode' = 1
  /\ UNCHANGED <<TestFiles, RequirementsFile, Store, fs, fi, testcases,
                 requirements, ti, specificationMap, untagged, markdownFile,
                 placed>>

parseFlags ==
  /\ pc = "parseFlags"
  /\ Len(TestFiles) # 0
  /\ pc' = "parseTestFiles"
  /\ UNCHANGED <<TestFiles, RequirementsFile, Store, fs, fi, testcases,
                 requirements, ti, specificationMap, untagged, console,
                 markdownFile, exitCode, placed>>

\* one iteration of the loop over the test files, the file readable
parseTestFiles_iter ==
  /\ pc = "parseTestFiles"
  /\ fi < Len(TestFiles)
  /\ fs[TestFiles[fi + 1]].ok
  /\ testcases' = testcases \o parseTestFile(fs[TestFiles[fi + 1]].data,
                                             TestFiles[fi + 1])
  /\ fi' = fi + 1
  /\ UNCHANGED <<pc, TestFiles, RequirementsFile, Store, fs, requirements, ti,
                 specificationMap, untagged, console, markdownFile, exitCode,
                 placed>>

\* ioutil.ReadFile fails: parseTestFiles returns (err, nil), main prints the
\* error and exits 1
parseTestFiles_error ==
  /\ pc = "parseTestFiles"
  /\ fi < Len(TestFiles)
  /\ ~fs[TestFiles[fi + 1]].ok
  /\ testcases' = <<>>
  /\ console' = Append(console, Line("error", <<>>, <<>>, TestFiles[fi + 1]))
  /\ pc' = "exit"
  /\ exitCode' = 1
  /\ UNCHANGED <<TestFiles, RequirementsFile, Store, fs, fi, requirements, ti,
                 specificationMap, untagged, markdownFile, placed>>

parseTestFiles_return ==
  /\ pc = "parseTestFiles"
  /\ fi = Len(TestFiles)
  /\ pc' = "parseRequirementsFile"
  /\ UNCHANGED <<TestFiles, RequirementsFile, Store, fs, fi, testcases,
                 requirements, ti, specificationMap, untagged, console,
                 markdownFile, exitCode, placed>>

\* a variant of parseRequirementsFile_error that carries on without
\* Requirements when the file cannot be opened
parseRequirementsFile_error_ignored ==
  /\ pc = "parseRequirementsFile"
  /\ ~fs[RequirementsFile].ok
  /\ requirements' = <<>>
  /\ pc' = "createSpecificationMap"
  /\ UNCHANGED <<TestFiles, RequirementsFile, Store, fs, fi, testcases, ti,
                 specificationMap, untagged, console, markdownFile, exitCode,
                 placed>>

\* os.Open fails (always for the empty default path): main prints the error
\* and exits 1
parseRequirementsFile_error ==
  /\ pc = "parseRequirementsFile"
  /\ ~fs[RequirementsFile].ok
  /\ console' = Append(console, Line("error", <<>>, <<>>, RequirementsFile))
  /\ pc' = "exit"
  /\ exitCode' = 1
  /\ UNCHANGED <<TestFiles, RequirementsFile, Store, fs, fi, testcases,
                 requirements, ti, specificationMap, untagged, markdownFile,
                 placed>>

parseRequirementsFile ==
  /\ pc = "parseRequirementsFile"
  /\ fs[RequirementsFile].ok
  /\ requirements' = parseRequirementsLines(ScanLines(fs[RequirementsFile].data))
  /\ pc' = "createSpecificationMap"
  /\ UNCHANGED <<TestFiles, RequirementsFile, Store, fs, fi, testcases, ti,
                 specificationMap, untagged, console, markdownFile, exitCode,
                 placed>>

\* one iteration of the loop over the test cases, the body pattern matching
createSpecificationMap_iter ==
  /\ pc = "createSpecificationMap"
  /\ ti < Len(testcases)
  /\ LET testcase == testcases[ti + 1]
         match == specRegex_FindStringSubmatch(testcase.Description)
         tags == tagRegex_FindAll(testcase.Description, 1)
     IN  /\ match # <<>>
         /\ LET spec == Specification(match[2], testcase.File)
            IN  /\ specificationMap' = appendToTags(specificationMap, tags, spec)
                /\ untagged' = appendUntagged(untagged, tags, spec)
  /\ ti' = ti + 1
  /\ placed' = Append(placed,
        [buckets |-> bucketEntries(specificationMap') - bucketEntries(specificationMap),
         untagged |-> Len(untagged') - Len(untagged)])
  /\ UNCHANGED <<pc, TestFiles, RequirementsFile, Store, fs, fi, testcases,
                 requirements, console, markdownFile, exitCode>>

\* the body pattern does not match: FindStringSubmatch returns nil and the
\* index [1] of line 122 panics (index out of range); the process dies with
\* exit status 2
createSpecificationMap_panic ==
  /\ pc = "createSpecificationMap"
  /\ ti < Len(testcases)
  /\ specRegex_FindStringSubmatch(testcases[ti + 1].Description) = <<>>
  /\ pc' = "exit"
  /\ exitCode' = 2
  /\ UNCHANGED <<TestFiles, RequirementsFile, Store, fs, fi, testcases,
                 requirements, ti, specificationMap, untagged, console,
                 markdownFile, placed>>

createSpecificationMap_return ==
  /\ pc = "createSpecificationMap"
  /\ ti = Len(testcases)
  /\ pc' = "printSpecificationMap"
  /\ UNCHANGED <<TestFiles, RequirementsFile, Store, fs, fi, testcases,
                 requirements, ti, specificationMap, untagged, console,
                 markdownFile, exitCode, placed>>

\* printSpecificationMap; without -store main then returns (exit status 0)
printSpecificationMap ==
  /\ pc = "printSpecificationMap"
  /\ \E order \in rangeOrders(specificationMap) :
       console' = console \o printedReport(specificationMap, untagged,
                                           requirements, order)
  /\ pc' = IF Store THEN "storeSpecificationMap" ELSE "exit"
  /\ exitCode' = IF Store THEN exitCode ELSE 0
  /\ UNCHANGED <<TestFiles, RequirementsFile, Store, fs, fi, testcases,
                 requirements, ti, specificationMap, untagged, markdownFile,
                 placed>>

\* storeSpecificationMap succeeds: the file holds the markdown text
storeSpecificationMap ==
  /\ pc = "storeSpecificationMap"
  /\ \E order \in rangeOrders(specificationMap) :
       markdownFile' = Written(markdownReport(specificationMap, untagged,
                                              requirements, order))
  /\ pc' = "exit"
  /\ exitCode' = 0
  /\ UNCHANGED <<TestFiles, RequirementsFile, Store, fs, fi, testcases,
                 requirements, ti, specificationMap, untagged, console, placed>>

\* os.MkdirAll or os.OpenFile fails (the file is untouched), or WriteString
\* fails (the file is truncated and holds a proper prefix of the text)
storeSpecificationMap_error ==
  /\ pc = "storeSpecificationMap"
  /\ \E order \in rangeOrders(specificationMap) :
       LET markdown == markdownReport(specificationMap, untagged,
                                      requirements, order)
       IN  \/ markdownFile' = markdownFile
           \/ \E n \in 0..(Len(markdown) - 1) :
                markdownFile' = Written(SubSeq(markdown, 1, n))
  /\ console' = Append(console, Line("error", <<>>, <<>>, ""))
  /\ pc' = "exit"
  /\ exitCode' = 1
  /\ UNCHANGED <<TestFiles, RequirementsFile, Store, fs, fi, testcases,
                 requirements, ti, specificationMap, untagged, placed>>

----------------------------------------------------------------------------
(* Inputs *)

Range(f) == {f[x] : x \in DOMAIN f}

\* the concatenations of at most n chunks of C
RECURSIVE Concats(_, _)
Concats(C, n) ==
  IF n = 0 THEN {<<>>}
  ELSE LET prev == Concats(C, n - 1)
       IN  prev \cup {b \o c : b \in prev, c \in C}

\* a line of a test file that calls patrolTest with description d
Call(d) == patrolTestToken \o <<"\"">> \o d \o <<"\"", ")", "\n">>

TestFileNames == {"f1", "f2"}

ReqsPath == "reqs"

\* "a: x", "z", "b: a: w", "q:"
SampleDescriptions ==
  {<<"a", ":", " ", "x">>,
   <<"z">>,
   <<"b", ":", " ", "a", ":", " ", "w">>,
   <<"q", ":">>}

\* "|a|x|", "| c | y |"
SampleRows ==
  {<<"|", "a", "|", "x", "|", "\n">>,
   <<"|", " ", "c", " ", "|", " ", "y", " ", "|", "\n">>}

DescAlphabet == {"a", "b", " ", ":"}

TestFileArgs(lo) == UNION {[1..n -> TestFileNames] : n \in lo..MaxFiles}

\* test files of at most n calls
TestBlobs(n) == Concats({Call(d) : d \in SampleDescriptions}, n)

TestFileStates(n) == {Unreadable} \cup {Readable(b) : b \in TestBlobs(n)}

\* requirement tables of at most n rows
ReqBlobs(n) == Concats(SampleRows, n)

ReqFileStates(n) == {Unreadable} \cup {Readable(b) : b \in ReqBlobs(n)}

\* the cells and paddings of the rows of a table-parsing run
Column1 == {<<"T","a","g">>, <<"T","A","G">>, <<"x">>}

Column2 ==
  {<<"D","e","s","c","r","i","p","t","i","o","n">>,
   <<"D","E","S","C","R","I","P","T","I","O","N">>,
   <<"y">>}

Padding == {<<>>, <<" ">>}

\* "| c1 | c2 |" under every padding, a separator row and a line of prose
ReqLines ==
  {<<"|">> \o p1 \o c1 \o p1 \o <<"|">> \o p2 \o c2 \o p2 \o <<"|", "\n">> :
     p1 \in Padding, c1 \in Column1, p2 \in Padding, c2 \in Column2}
  \cup {<<"|", "-", "|", "-", "|", "\n">>, <<"x", " ", "y", "\n">>}

----------------------------------------------------------------------------
(* A run of main on a command line and the files it names *)

\* the variables main's steps fill, before the first step
Fresh ==
  /\ fi = 0
  /\ testcases = <<>>
  /\ requirements = <<>>
  /\ ti = 0
  /\ specificationMap = EmptyMap
  /\ untagged = <<>>
  /\ console = <<>>
  /\ markdownFile = Absent
  /\ exitCode = -1
  /\ placed = <<>>

Init ==
  /\ pc = "parseFlags"
  /\ TestFiles \in TestFileArgs(0)
  /\ RequirementsFile \in {"", ReqsPath}
  /\ Store \in BOOLEAN
  /\ \E tf \in [TestFileNames -> TestFileStates(MaxRunCalls)],
        rf \in ReqFileStates(MaxRunRows) :
       fs = [p \in Range(TestFiles) \cup {RequirementsFile} |->
               IF p = "" THEN Unreadable
               ELSE IF p = ReqsPath THEN rf ELSE tf[p]]
  /\ Fresh

Next ==
  \/ parseFlags_error
  \/ parseFlags
  \/ parseTestFiles_iter
  \/ parseTestFiles_error
  \/ parseTestFiles_return
  \/ parseRequirementsFile_error
  \/ parseRequirementsFile
  \/ createSpecificationMap_iter
  \/ createSpecificationMap_panic
  \/ createSpecificationMap_return
  \/ printSpecificationMap
  \/ storeSpecificationMap
  \/ storeSpecificationMap_error

Spec == Init /\ [][Next]_vars

----------------------------------------------------------------------------
(* Aggregation runs: test files of several calls, an empty requirement     *)
(* table, from parseTestFiles to the return of createSpecificationMap      *)

InitAggregate ==
  /\ pc = "parseTestFiles"
  /\ TestFiles \in TestFileArgs(1)
  /\ RequirementsFile = ReqsPath
  /\ Store = FALSE
  /\ \E tf \in [TestFileNames -> TestFileStates(MaxCalls)] :
       fs = [p \in Range(TestFiles) \cup {ReqsPath} |->
               IF p = ReqsPath THEN Readable(<<>>) ELSE tf[p]]
  /\ Fresh

NextAggregate ==
  \/ parseTestFiles_iter
  \/ parseTestFiles_error
  \/ parseTestFiles_return
  \/ parseRequirementsFile
  \/ createSpecificationMap_iter
  \/ createSpecificationMap_panic
  \/ createSpecificationMap_return

SpecAggregate == InitAggregate /\ [][NextAggregate]_vars

----------------------------------------------------------------------------
(* Report runs: main at its call of createSpecificationMap, one test file  *)
(* and a requirement table read, through printing and storing              *)

InitReport ==
  /\ pc = "createSpecificationMap"
  /\ TestFiles = <<"f1">>
  /\ RequirementsFile = ReqsPath
  /\ Store \in BOOLEAN
  /\ \E b \in TestBlobs(MaxCases), rb \in ReqBlobs(MaxReqs) :
       /\ fs = [p \in {"f1", ReqsPath} |->
                  IF p = ReqsPath THEN Readable(rb) ELSE Readable(b)]
       /\ testcases = parseTestFile(b, "f1")
       /\ requirements = parseRequirementsLines(ScanLines(rb))
  /\ fi = 1
  /\ ti = 0
  /\ specificationMap = EmptyMap
  /\ untagged = <<>>
  /\ console = <<>>
  /\ markdownFile = Absent
  /\ exitCode = -1
  /\ placed = <<>>

NextReport ==
  \/ createSpecificationMap_iter
  \/ createSpecificationMap_panic
  \/ createSpecificationMap_return
  \/ printSpecificationMap
  \/ storeSpecificationMap
  \/ storeSpecificationMap_error

SpecReport == InitReport /\ [][NextReport]_vars

----------------------------------------------------------------------------
(* Tag-splitting runs: createSpecificationMap on the one test case the     *)
(* extractor yields for a call with a description over DescAlphabet        *)

InitSplit ==
  /\ pc = "createSpecificationMap"
  /\ TestFiles = <<"f1">>
  /\ RequirementsFile = ReqsPath
  /\ Store = FALSE
  /\ \E d \in Strings(DescAlphabet, 1, MaxDescLen) :
       /\ fs = [p \in {"f1", ReqsPath} |->
                  IF p = ReqsPath THEN Readable(<<>>) ELSE Readable(Call(d))]
       /\ testcases = parseTestFile(Call(d), "f1")
  /\ requirements = <<>>
  /\ fi = 1
  /\ ti = 0
  /\ specificationMap = EmptyMap
  /\ untagged = <<>>
  /\ console = <<>>
  /\ markdownFile = Absent
  /\ exitCode = -1
  /\ placed = <<>>

NextSplit ==
  \/ createSpecificationMap_iter
  \/ createSpecificationMap_panic
  \/ createSpecificationMap_return

SpecSplit == InitSplit /\ [][NextSplit]_vars

----------------------------------------------------------------------------
(* Table-parsing runs: main at its call of parseRequirementsFile, on a     *)
(* requirement file of a few lines                                         *)

InitRequirements ==
  /\ pc = "parseRequirementsFile"
  /\ TestFiles = <<"f1">>
  /\ RequirementsFile = ReqsPath
  /\ Store = FALSE
  /\ \E rf \in {Unreadable} \cup {Readable(b) : b \in Concats(ReqLines, MaxReqLines)} :
       fs = [p \in {"f1", ReqsPath} |->
               IF p = ReqsPath THEN rf ELSE Readable(<<>>)]
  /\ fi = 1
  /\ testcases = <<>>
  /\ requirements = <<>>
  /\ ti = 0
  /\ specificationMap = EmptyMap
  /\ untagged = <<>>
  /\ console = <<>>
  /\ markdownFile = Absent
  /\ exitCode = -1
  /\ placed = <<>>

NextRequirements ==
  \/ parseRequirementsFile_error
  \/ parseRequirementsFile

SpecRequirements == InitRequirements /\ [][NextRequirements]_vars

----------------------------------------------------------------------------
(* Properties of the tag splitting, under SpecSplit *)

\* the white-space-delimited tokens of d, as <<first index, last index>>
Tokens(d) ==
  LET first == {i \in 1..Len(d) :
                  ~IsSpace(d[i]) /\ (i = 1 \/ IsSpace(d[i - 1]))}
      last == {j \in 1..Len(d) :
                 ~IsSpace(d[j]) /\ (j = Len(d) \/ IsSpace(d[j + 1]))}
  IN  {<<i, Min({j \in last : j >= i})>> : i \in first}

\* the tokens that hold a colon after their first character
TagTokens(d) == {t \in Tokens(d) : \E n \in (t[1] + 1)..t[2] : d[n] = ":"}

\* such a token up to its last colon
TokenTag(d, t) ==
  SubSeq(d, t[1], Max({n \in (t[1] + 1)..t[2] : d[n] = ":"}) - 1)

Colons(d) == {n \in 1..Len(d) : d[n] = ":"}

\* d is TAG, colon, separator white space, body: TAG a non-empty run of
\* non-white-space non-colon characters, no colon in the body
TagBodyForm(d) ==
  /\ Colons(d) # {}
  /\ LET c == Min(Colons(d))
     IN  /\ c > 1
         /\ c < Len(d)
         /\ \A n \in 1..(c - 1) : ~IsSpace(d[n])
         /\ IsSpace(d[c + 1])
         /\ Colons(d) = {c}

\* s without its leading white space
TrimLeadingSpace(s) ==
  LET keep == {i \in 1..Len(s) : ~IsSpace(s[i])}
  IN  IF keep = {} THEN <<>> ELSE Tail_From(s, Min(keep))

\* C3 as stated: every description gets at most one tag, the prefix of the
\* description that ends at its first colon, and is appended to at most one
\* bucket.
C3_OneLeadingTag ==
  ti = 1 =>
    LET d == testcases[1].Description
    IN  /\ bucketEntries(specificationMap) <= 1
        /\ \A k \in DOMAIN specificationMap :
             /\ Colons(d) # {}
             /\ k = SubSeq(d, 1, Min(Colons(d)) - 1)

\* C3 amended: a processed description is appended once per token that holds
\* a colon after its first character, to the bucket keyed by that token up to
\* its last colon, wherever the token starts; it is untagged exactly when it
\* has no such token; and nothing is appended before the description is
\* processed (a description that ends in a colon is never processed).
C3_OneTagPerToken ==
  /\ ti = 0 => specificationMap = EmptyMap /\ untagged = <<>>
  /\ ti = 1 =>
       LET d == testcases[1].Description
       IN  /\ DOMAIN specificationMap = {TokenTag(d, t) : t \in TagTokens(d)}
           /\ \A k \in DOMAIN specificationMap :
                Len(specificationMap[k]) =
                  Cardinality({t \in TagTokens(d) : TokenTag(d, t) = k})
           /\ Len(untagged) = IF TagTokens(d) = {} THEN 1 ELSE 0

\* a description was appended to two buckets
C3_Witness == ti = 1 /\ Cardinality(DOMAIN specificationMap) = 2

\* C4 as stated: a description TAG, colon, white space, body is stored under
\* TAG with the remainder after the colon trimmed at both ends.
C4_BodyTrimmedBothEnds ==
  (ti = 1 /\ TagBodyForm(testcases[1].Description)) =>
    LET d == testcases[1].Description
        c == Min(Colons(d))
    IN  /\ DOMAIN specificationMap = {SubSeq(d, 1, c - 1)}
        /\ specificationMap[SubSeq(d, 1, c - 1)] =
             <<Specification(TrimSpace(Tail_From(d, c + 1)), testcases[1].File)>>

\* C4 amended: such a description is always processed, and is stored under
\* TAG (and nowhere else) with the remainder after the colon without its
\* leading white space, every other character kept, trailing white space
\* included.
C4_BodyTrimmedLeft ==
  TagBodyForm(testcases[1].Description) =>
    /\ exitCode # 2
    /\ ti = 1 =>
         LET d == testcases[1].Description
             c == Min(Colons(d))
         IN  /\ DOMAIN specificationMap = {SubSeq(d, 1, c - 1)}
             /\ specificationMap[SubSeq(d, 1, c - 1)] =
                  <<Specification(TrimLeadingSpace(Tail_From(d, c + 1)),
                                  testcases[1].File)>>
             /\ untagged = <<>>

\* a description of the form was stored with a body that ends in white space
C4_Witness ==
  /\ ti = 1
  /\ TagBodyForm(testcases[1].Description)
  /\ \E k \in DOMAIN specificationMap :
       LET body == specificationMap[k][1].Description
       IN  /\ Len(body) >= 2
           /\ ~IsSpace(body[1])
           /\ IsSpace(body[Len(body)])

\* C5: a processed description without a colon is in no bucket and is the one
\* entry of the untagged list, with its full text.
C5_UntaggedKeepsDescription ==
  (ti = 1 /\ Colons(testcases[1].Description) = {}) =>
    /\ specificationMap = EmptyMap
    /\ untagged = <<Specification(testcases[1].Description, testcases[1].File)>>

\* C6: the body pattern matches every description the extractor yields, so
\* the aggregation never dies on its index of the match (the panic of line
\* 122, exit status 2).
C6_BodyPatternAlwaysMatches == exitCode # 2

----------------------------------------------------------------------------
(* Properties of the requirement table parser, under SpecRequirements *)

UpperCase ==
  <<"A","B","C","D","E","F","G","H","I","J","K","L","M","N","O","P","Q","R",
    "S","T","U","V","W","X","Y","Z">>

LowerCase ==
  <<"a","b","c","d","e","f","g","h","i","j","k","l","m","n","o","p","q","r",
    "s","t","u","v","w","x","y","z">>

ToLower(s) ==
  [n \in 1..Len(s) |->
     IF \E k \in 1..Len(UpperCase) : UpperCase[k] = s[n]
     THEN LowerCase[CHOOSE k \in 1..Len(UpperCase) : UpperCase[k] = s[n]]
     ELSE s[n]]

HeaderLabels ==
  {<<"t","a","g">>, <<"d","e","s","c","r","i","p","t","i","o","n">>}

\* what C9 says a line yields: nothing if it is no row or if either trimmed
\* column is a header label in any letter case, else one trimmed Requirement
RECURSIVE RequirementsAsClaimed(_)
RequirementsAsClaimed(lines) ==
  IF lines = <<>> THEN <<>>
  ELSE LET match == requirementsRegex_FindStringSubmatch(Head(lines))
           row == IF match = <<>> THEN <<>>
                  ELSE IF ToLower(TrimSpace(match[1])) \in HeaderLabels THEN <<>>
                  ELSE IF ToLower(TrimSpace(match[2])) \in HeaderLabels THEN <<>>
                  ELSE <<Requirement(TrimSpace(match[1]), TrimSpace(match[2]))>>
       IN  row \o RequirementsAsClaimed(Tail(lines))

\* C9: the Requirements parsed from a readable file are, in line order, one
\* per row whose columns are no header label (compared trimmed and without
\* regard to letter case), both fields trimmed.
C9_HeaderRowsSkipped ==
  pc = "createSpecificationMap" =>
    requirements = RequirementsAsClaimed(ScanLines(fs[RequirementsFile].data))

----------------------------------------------------------------------------
(* Properties of the aggregation, under SpecAggregate *)

\* number of tag tokens of the k-th test case
TagCount(k) == Cardinality(TagTokens(testcases[k].Description))

\* entries the first n test cases account for: one per tag token, or one in
\* the untagged list for a test case without tag token
RECURSIVE EntriesDue(_)
EntriesDue(n) ==
  IF n = 0 THEN 0
  ELSE EntriesDue(n - 1) + (IF TagCount(n) = 0 THEN 1 ELSE TagCount(n))

\* C7: after any number of processed test cases, each of them went either to
\* one or more buckets (one entry per tag token) or to the untagged list (one
\* entry), never to both, and the buckets and the untagged list together hold
\* as many entries as there are tag tokens plus test cases without one.
C7_BucketsOrUntagged ==
  /\ Len(placed) = ti
  /\ \A k \in 1..ti :
       /\ placed[k].buckets = TagCount(k)
       /\ placed[k].untagged = IF TagCount(k) = 0 THEN 1 ELSE 0
  /\ bucketEntries(specificationMap) + Len(untagged) = EntriesDue(ti)

\* a test case fanned out to two buckets and another went to the untagged list
C7_Witness ==
  /\ ti >= 2
  /\ \E k \in 1..ti : placed[k].buckets = 2 /\ placed[k].untagged = 0
  /\ \E k \in 1..ti : placed[k].buckets = 0 /\ placed[k].untagged = 1

\* the descriptions written in a test file of Call lines, in textual order
WrittenDescriptions(b) ==
  LET lines == ScanLines(b)
  IN  [n \in 1..Len(lines) |->
         SubSeq(lines[n], Len(patrolTestToken) + 2, Len(lines[n]) - 2)]

\* the test cases written in the first n files of the command line
RECURSIVE WrittenTestCases(_)
WrittenTestCases(n) ==
  IF n = 0 THEN <<>>
  ELSE LET W == WrittenDescriptions(fs[TestFiles[n]].data)
       IN  WrittenTestCases(n - 1)
             \o [m \in 1..Len(W) |-> TestCase(W[m], TestFiles[n])]

\* the Specification of a processed test case: its description after the last
\* colon, without the next character and the white space that follows it
BodyOf(d) ==
  LET c == IF Colons(d) = {} THEN 0 ELSE Max(Colons(d))
  IN  TrimLeadingSpace(Tail_From(d, c + 2))

RECURSIVE Copies(_, _)
Copies(x, n) == IF n = 0 THEN <<>> ELSE <<x>> \o Copies(x, n - 1)

\* the bucket of a tag after the first n test cases, in encounter order
RECURSIVE BucketInOrder(_, _)
BucketInOrder(tag, n) ==
  IF n = 0 THEN <<>>
  ELSE LET d == testcases[n].Description
       IN  BucketInOrder(tag, n - 1)
             \o Copies(Specification(BodyOf(d), testcases[n].File),
                       Cardinality({t \in TagTokens(d) : TokenTag(d, t) = tag}))

\* the untagged list after the first n test cases, in encounter order
RECURSIVE UntaggedInOrder(_)
UntaggedInOrder(n) ==
  IF n = 0 THEN <<>>
  ELSE UntaggedInOrder(n - 1)
         \o (IF TagCount(n) = 0
             THEN <<Specification(BodyOf(testcases[n].Description),
                                  testcases[n].File)>>
             ELSE <<>>)

\* C8: unless a read error discarded them, the test cases are those of the
\* files read so far, files in command-line order and matches in textual
\* order; every bucket and the untagged list hold the entries of the
\* processed test cases in that same order.
C8_EncounterOrder ==
  /\ (pc = "exit" /\ exitCode = 1) \/ testcases = WrittenTestCases(fi)
  /\ \A tag \in DOMAIN specificationMap :
       specificationMap[tag] = BucketInOrder(tag, ti)
  /\ \A k \in 1..ti :
       \A t \in TagTokens(testcases[k].Description) :
         TokenTag(testcases[k].Description, t) \in DOMAIN specificationMap
  /\ untagged = UntaggedInOrder(ti)

\* two different files of two calls each were aggregated, and a bucket holds
\* an entry of the first file before an entry of the second
C8_Witness ==
  /\ pc = "printSpecificationMap"
  /\ Len(TestFiles) = 2
  /\ TestFiles[1] # TestFiles[2]
  /\ Len(testcases) = 4
  /\ testcases[2].File = TestFiles[1]
  /\ testcases[3].File = TestFiles[2]
  /\ \E tag \in DOMAIN specificationMap :
       /\ Len(specificationMap[tag]) >= 2
       /\ specificationMap[tag][1].File = TestFiles[1]
       /\ specificationMap[tag][Len(specificationMap[tag])].File = TestFiles[2]

----------------------------------------------------------------------------
(* Properties of the report, under SpecReport *)

IsTitle(l) == l.kind \in {"requirement", "orphan", "untagged"}

\* the section titles of an output, in the order written
Titles(lines) == SelectSeq(lines, IsTitle)

\* the tags with a bucket and no Requirement
OrphanTags ==
  DOMAIN specificationMap \ {requirements[n].Tag : n \in 1..Len(requirements)}

Rank(l) ==
  IF l.kind = "requirement" THEN 1 ELSE IF l.kind = "orphan" THEN 2 ELSE 3

\* no orphan title before a requirement title, nothing after the untagged title
TitlesRanked(T) ==
  /\ \A x, y \in 1..Len(T) : x < y => Rank(T[x]) <= Rank(T[y])
  /\ \A x, y \in 1..Len(T) : (x < y /\ Rank(T[x]) = 3) => FALSE

\* T is: the Requirements in parsed order, then every orphan tag once, then
\* the untagged title if the untagged list is not empty
TitlesComplete(T) ==
  LET nr == Len(requirements)
      no == Cardinality(OrphanTags)
      nu == IF untagged # <<>> THEN 1 ELSE 0
  IN  /\ Len(T) = nr + no + nu
      /\ \A n \in 1..nr :
           T[n] = Line("requirement", requirements[n].Tag,
                       requirements[n].Description, "")
      /\ \A n \in (nr + 1)..(nr + no) :
           T[n].kind = "orphan" /\ T[n].tag \in OrphanTags
      /\ \A x, y \in (nr + 1)..(nr + no) : x # y => T[x].tag # T[y].tag
      /\ nu = 1 => T[Len(T)].kind = "untagged"

Printed == pc \in {"storeSpecificationMap", "exit"} /\ exitCode # 2

\* C1: the console report, once printed, and the markdown file, once stored,
\* hold one section per Requirement in parsed order, then one per orphan tag,
\* then the untagged section if there are untagged entries; nothing of a
\* report is on the console before, and a markdown file cut short by a write
\* error still has no orphan section before a Requirement section and nothing
\* after the untagged section.
C1_SectionOrder ==
  /\ IF Printed THEN TitlesComplete(Titles(console))
                ELSE Titles(console) = <<>>
  /\ TitlesRanked(Titles(console))
  /\ TitlesRanked(Titles(markdownFile.lines))
  /\ (pc = "exit" /\ exitCode = 0 /\ Store) =>
       /\ markdownFile.exists
       /\ TitlesComplete(Titles(markdownFile.lines))

\* a stored report with a Requirement without bucket, then one with a bucket,
\* an orphan tag and untagged entries
C1_Witness ==
  /\ pc = "exit"
  /\ exitCode = 0
  /\ markdownFile.exists
  /\ Len(requirements) = 2
  /\ requirements[1].Tag \notin DOMAIN specificationMap
  /\ requirements[2].Tag \in DOMAIN specificationMap
  /\ OrphanTags # {}
  /\ untagged # <<>>

\* the tags of xs that are not in seen, each once, in order of appearance
RECURSIVE NewTags(_, _)
NewTags(seen, xs) ==
  IF xs = <<>> THEN <<>>
  ELSE IF Contains(seen, Head(xs)) THEN NewTags(seen, Tail(xs))
  ELSE <<Head(xs)>> \o NewTags(Append(seen, Head(xs)), Tail(xs))

\* the tags of the first n test cases in the order first encountered
RECURSIVE FirstSeen(_)
FirstSeen(n) ==
  IF n = 0 THEN <<>>
  ELSE FirstSeen(n - 1)
         \o NewTags(FirstSeen(n - 1),
                    tagRegex_FindAll(testcases[n].Description, 1))

IsOrphanTag(t) == t \in OrphanTags

IsOrphanTitle(l) == l.kind = "orphan"

\* the tags of the orphan sections of an output, in the order written
OrphanSections(lines) ==
  LET T == SelectSeq(lines, IsOrphanTitle)
  IN  [n \in 1..Len(T) |-> T[n].tag]

\* C2: the orphan sections of the printed report, and of the stored one, are
\* in the order in which createSpecificationMap first encountered their tags.
C2_OrphansInFirstSeenOrder ==
  /\ Printed =>
       OrphanSections(console) = SelectSeq(FirstSeen(ti), IsOrphanTag)
  /\ (pc = "exit" /\ exitCode = 0 /\ Store) =>
       OrphanSections(markdownFile.lines) = SelectSeq(FirstSeen(ti), IsOrphanTag)

----------------------------------------------------------------------------
(* Properties of a whole run, under Spec *)

\* the test files of the command line that cannot be read, by position
UnreadableArgs == {k \in 1..Len(TestFiles) : ~fs[TestFiles[k]].ok}

IsReportLine(l) ==
  l.kind \in {"requirement", "orphan", "untagged", "spec", "nospecs"}

====
